---- MODULE Spec2Model ----
(***************************************************************************)
(* State-machine model of app.py, the Flask front-end of the California    *)
(* Housing simple-linear-regression model:                                 *)
(*   line 6       model = joblib.load('slr_model.pkl')   (module import)    *)
(*   lines 8-10   GET  /         home()                                     *)
(*   lines 12-19  POST /predict  predict()                                  *)
(*   lines 21-22  app.run(debug=True, port=5001)                            *)
(* Request handlers run on worker threads; every handler is modelled line  *)
(* by line, so that handlers of different workers interleave.              *)
(* An optional value (a template argument that may be absent, a local that *)
(* is not bound yet) is the empty set or a singleton set.                  *)
(***************************************************************************)
EXTENDS Integers, Sequences, FiniteSets, TLC

VARIABLES phase, model, loads, pc, req, income, prediction, exc, calls, resp

vars == <<phase, model, loads, pc, req, income, prediction, exc, calls, resp>>

(***************************************************************************)
(* Bounds of the model.                                                    *)
(***************************************************************************)
\* longest income string submitted in the sequential specification
MaxLen == 3

\* characters an income string is made of
Digits == {"0", "1"}
Alphabet == Digits \cup {"-", ".", "e", "n", "a", "i", "f", " "}

\* every string over Alphabet of length 0..n, as a sequence of characters
Strings(n) == UNION {[1..k -> Alphabet] : k \in 0..n}

(***************************************************************************)
(* float(str), line 15, on strings over Alphabet.  CPython strips          *)
(* surrounding whitespace, reads an optional sign, then either inf,        *)
(* infinity or nan, or a decimal literal                                   *)
(*   (digits [. [digits]] | . digits) [e [sign] digits].                   *)
(* The value is kept exactly as sign, mantissa and decimal exponent,       *)
(* normalised so that equal numbers are equal values ("10" = "1e1").       *)
(* Strings this short neither overflow to inf nor lose double precision.   *)
(***************************************************************************)
Signs == {"+", "-"}
ExpMarks == {"e", "E"}
Specials == {<<"n", "a", "n">>, <<"i", "n", "f">>,
             <<"i", "n", "f", "i", "n", "i", "t", "y">>}

RECURSIVE LStrip(_)
LStrip(s) == IF s # <<>> /\ Head(s) = " " THEN LStrip(Tail(s)) ELSE s

RECURSIVE RStrip(_)
RStrip(s) ==
    IF s # <<>> /\ s[Len(s)] = " " THEN RStrip(SubSeq(s, 1, Len(s) - 1)) ELSE s

Strip(s) == RStrip(LStrip(s))

HasSign(t) == t # <<>> /\ t[1] \in Signs
Unsigned(t) == IF HasSign(t) THEN Tail(t) ELSE t
IsNegative(t) == t # <<>> /\ t[1] = "-"

IsDigits(t) == t # <<>> /\ \A i \in 1..Len(t) : t[i] \in Digits

\* index of the first character of t that is in C, 0 when there is none
FirstIndex(t, C) ==
    IF \E i \in 1..Len(t) : t[i] \in C
    THEN CHOOSE i \in 1..Len(t) :
             t[i] \in C /\ \A j \in 1..(i - 1) : t[j] \notin C
    ELSE 0

\* the part of an unsigned literal before the exponent mark
MantissaPart(u) ==
    LET e == FirstIndex(u, ExpMarks)
    IN  IF e = 0 THEN u ELSE SubSeq(u, 1, e - 1)

\* the part after the exponent mark (empty when there is no mark)
ExponentPart(u) ==
    LET e == FirstIndex(u, ExpMarks)
    IN  IF e = 0 THEN <<>> ELSE SubSeq(u, e + 1, Len(u))

HasExponent(u) == FirstIndex(u, ExpMarks) # 0

IntDigits(m) ==
    LET d == FirstIndex(m, {"."})
    IN  IF d = 0 THEN m ELSE SubSeq(m, 1, d - 1)

FracDigits(m) ==
    LET d == FirstIndex(m, {"."})
    IN  IF d = 0 THEN <<>> ELSE SubSeq(m, d + 1, Len(m))

IsMantissa(m) ==
    /\ IsDigits(IntDigits(m) \o FracDigits(m))
    /\ Len(IntDigits(m)) + Len(FracDigits(m)) >= Len(m) - 1

IsExponent(x) == IsDigits(Unsigned(x))

IsDecimal(u) ==
    /\ IsMantissa(MantissaPart(u))
    /\ HasExponent(u) => IsExponent(ExponentPart(u))

\* the strings float() accepts
IsFloatLiteral(s) ==
    LET u == Unsigned(Strip(s))
    IN  u \in Specials \/ IsDecimal(u)

DigitOf(c) == IF c = "1" THEN 1 ELSE 0

RECURSIVE DigitsVal(_)
DigitsVal(t) ==
    IF t = <<>> THEN 0
    ELSE 10 * DigitsVal(SubSeq(t, 1, Len(t) - 1)) + DigitOf(t[Len(t)])

RECURSIVE Normalise(_, _)
Normalise(m, e) ==
    IF m = 0 THEN <<0, 0>>
    ELSE IF m % 10 = 0 THEN Normalise(m \div 10, e + 1)
    ELSE <<m, e>>

Finite(neg, m, e) ==
    LET n == Normalise(m, e)
    IN  [kind |-> "finite", neg |-> neg, mant |-> n[1], exp |-> n[2]]

NaN == [kind |-> "nan", neg |-> FALSE, mant |-> 0, exp |-> 0]
Inf(neg) == [kind |-> "inf", neg |-> neg, mant |-> 0, exp |-> 0]

\* the value of a string float() accepts
FloatValue(s) ==
    LET t == Strip(s)
        u == Unsigned(t)
        m == MantissaPart(u)
        x == ExponentPart(u)
        e == IF IsNegative(x) THEN 0 - DigitsVal(Unsigned(x))
             ELSE DigitsVal(Unsigned(x))
    IN  IF u = <<"n", "a", "n">> THEN NaN
        ELSE IF u \in Specials THEN Inf(IsNegative(t))
        ELSE Finite(IsNegative(t),
                    DigitsVal(IntDigits(m) \o FracDigits(m)),
                    e - Len(FracDigits(m)))

(***************************************************************************)
(* Exceptions and the outcome of a call: a value returned or an exception  *)
(* raised.  str(e) is the message, a sequence of text fragments.           *)
(***************************************************************************)
Exception(type, msg) == [type |-> type, msg |-> msg]
Str(e) == e.msg

Return(v) == [raised |-> FALSE, val |-> {v}, exc |-> {}]
Raise(e) == [raised |-> TRUE, val |-> {}, exc |-> {e}]
ValueOf(o) == CHOOSE v \in o.val : TRUE
ExcOf(o) == CHOOSE e \in o.exc : TRUE

\* faulty variant of PyFloat: blank input is read as 0.0, as float(s or 0) would
PyFloatLenient(s) ==
    IF IsFloatLiteral(s) THEN Return(FloatValue(s))
    ELSE IF Strip(s) = <<>> THEN Return(Finite(FALSE, 0, 0))
    ELSE Raise(Exception("ValueError",
             <<"could not convert string to float: ", "'">> \o s \o <<"'">>))

\* float(s), line 15: the value, or ValueError naming repr(s)
PyFloat(s) ==
    IF IsFloatLiteral(s) THEN Return(FloatValue(s))
    ELSE Raise(Exception("ValueError",
             <<"could not convert string to float: ", "'">> \o s \o <<"'">>))

\* faulty variant of FormIncome: request.form.get('income', '0'), a default for
\* the absent field
FormIncomeDefault(form) ==
    IF form.income = {} THEN Return(<<"0">>)
    ELSE Return(CHOOSE s \in form.income : TRUE)

\* request.form['income'], line 15: the submitted text, or werkzeug's
\* BadRequestKeyError (an Exception) when the field is absent
FormIncome(form) ==
    IF form.income = {}
    THEN Raise(Exception("BadRequestKeyError", <<"400 Bad Request: ",
             "The browser (or proxy) sent a request that this server could not understand.">>))
    ELSE Return(CHOOSE s \in form.income : TRUE)

(***************************************************************************)
(* The predictor: the object joblib.load returns at line 6.  The artifact  *)
(* is produced outside the program, so the load may yield any of these     *)
(* predictors.  Each is a fixed function of its input: predict() of a      *)
(* 1 x 1 array either returns an array of outputs or raises.               *)
(*   finite_only  one output for a finite input, ValueError on nan or inf  *)
(*                (a fitted scikit-learn regressor validates its input)    *)
(*   wide         two outputs, for every input                             *)
(*   mismatch     ValueError for every input (fitted on another shape)     *)
(*   silent       an exception without a message for every input           *)
(*   empty        an empty array for every input                           *)
(***************************************************************************)
NoModel == "none"
Predictors == {"finite_only", "wide", "mismatch", "silent", "empty"}

\* np.array([[income]]), line 16: one row holding one feature
Array2D(x) == <<<<x>>>>

\* the k-th output of predictor m at input x; the regression itself is opaque
Output(m, x, k) == [by |-> m, at |-> x, output |-> k]

\* model.predict(X), line 16
Predict(m, X) ==
    LET x == X[1][1]
    IN  CASE m = "finite_only" ->
               IF x.kind = "finite" THEN Return(<<Output(m, x, 1)>>)
               ELSE Raise(Exception("ValueError",
                            <<"Input X contains ", x.kind, ".">>))
          [] m = "wide" -> Return(<<Output(m, x, 1), Output(m, x, 2)>>)
          [] m = "mismatch" ->
               Raise(Exception("ValueError",
                       <<"X has 1 features, but the model is expecting 2 features as input.">>))
          [] m = "silent" -> Raise(Exception("Exception", <<>>))
          [] m = "empty" -> Return(<<>>)
          [] m = NoModel ->
               Raise(Exception("AttributeError",
                       <<"'NoneType' object has no attribute 'predict'">>))

\* a[0], line 16: the first element, or IndexError on an empty array
First(a) ==
    IF Len(a) = 0
    THEN Raise(Exception("IndexError",
                 <<"index 0 is out of bounds for axis 0 with size 0">>))
    ELSE Return(a[1])

(***************************************************************************)
(* Requests and responses.  A response is the status and the template      *)
(* render_template was given, with the template arguments passed to it.    *)
(***************************************************************************)
NoForm == [income |-> {}]
GetHome == [method |-> "GET", path |-> "/", form |-> NoForm]
PostPredict(form) == [method |-> "POST", path |-> "/predict", form |-> form]

\* the requests with an income of at most n characters, or with none
Requests(n) ==
    {GetHome, PostPredict(NoForm)}
        \cup {PostPredict([income |-> {s}]) : s \in Strings(n)}

NoRequest == [method |-> "", path |-> "", form |-> NoForm]
NoContext == [prediction |-> {}, income |-> {}, error |-> {}]
NoResponse == [status |-> 0, template |-> "", context |-> NoContext]

\* render_template(name, **context), lines 10, 17 and 19
RenderTemplate(name, context) ==
    [status |-> 200, template |-> name, context |-> context]

\* @app.route, lines 8 and 12: the first line of the view function
Route(r) ==
    IF r.method = "GET" /\ r.path = "/" THEN "line10" ELSE "line15"

(***************************************************************************)
(* Start-up: module import (line 6), then app.run (lines 21-22).           *)
(***************************************************************************)
InitOver(W) ==
    /\ phase = "import"
    /\ model = NoModel
    /\ loads = 0
    /\ pc = [w \in W |-> "idle"]
    /\ req = [w \in W |-> NoRequest]
    /\ income = [w \in W |-> {}]
    /\ prediction = [w \in W |-> {}]
    /\ exc = [w \in W |-> {}]
    /\ calls = [w \in W |-> <<>>]
    /\ resp = [w \in W |-> NoResponse]

workerVars == <<pc, req, income, prediction, exc, calls, resp>>

\* line 6, joblib.load returns a predictor
LoadModel ==
    /\ phase = "import"
    /\ \E m \in Predictors : model' = m
    /\ loads' = loads + 1
    /\ phase' = "loaded"
    /\ UNCHANGED workerVars

\* faulty variant of LoadModelFails: the failure is swallowed (try/except around the
\* load) and start-up goes on with no predictor
LoadModelFailsSoft ==
    /\ phase = "import"
    /\ loads' = loads + 1
    /\ phase' = "loaded"
    /\ UNCHANGED <<model, workerVars>>

\* line 6, joblib.load raises: the import fails and the interpreter exits
LoadModelFails ==
    /\ phase = "import"
    /\ loads' = loads + 1
    /\ phase' = "exited"
    /\ UNCHANGED <<model, workerVars>>

\* lines 21-22, app.run: the server starts to serve
AppRun ==
    /\ phase = "loaded"
    /\ phase' = "serving"
    /\ UNCHANGED <<model, loads, workerVars>>

(***************************************************************************)
(* Request handling.                                                       *)
(***************************************************************************)
\* an idle worker takes the next request, one of R, and enters its view
\* function
Receive(w, R) ==
    /\ phase = "serving"
    /\ pc[w] = "idle"
    /\ \E r \in R :
         /\ pc' = [pc EXCEPT ![w] = Route(r)]
         /\ req' = [req EXCEPT ![w] = r]
    /\ UNCHANGED <<phase, model, loads, income, prediction, exc, calls, resp>>

\* faulty variant of Home: the page shows the error a handler last raised, kept in
\* process-wide state
HomeShowsLastError(w) ==
    /\ pc[w] = "line10"
    /\ LET raised == UNION {exc[v] : v \in DOMAIN exc}
           last == IF raised = {} THEN {}
                   ELSE {Str(CHOOSE e \in raised : TRUE)}
       IN  resp' = [resp EXCEPT ![w] =
                      RenderTemplate("index.html",
                          [prediction |-> {}, income |-> {}, error |-> last])]
    /\ pc' = [pc EXCEPT ![w] = "done"]
    /\ UNCHANGED <<phase, model, loads, req, income, prediction, exc, calls>>

\* lines 9-10, home()
Home(w) ==
    /\ pc[w] = "line10"
    /\ resp' = [resp EXCEPT ![w] = RenderTemplate("index.html", NoContext)]
    /\ pc' = [pc EXCEPT ![w] = "done"]
    /\ UNCHANGED <<phase, model, loads, req, income, prediction, exc, calls>>

\* faulty variant of ParseIncome: the income is range-checked, and a negative or
\* non-finite one is rejected with an error
ParseIncomeRangeChecked(w) ==
    /\ pc[w] = "line15"
    /\ LET field == FormIncome(req[w].form)
           value == IF field.raised THEN field ELSE PyFloat(ValueOf(field))
           checked == IF value.raised THEN value
                      ELSE IF ValueOf(value).kind # "finite" \/ ValueOf(value).neg
                      THEN Raise(Exception("ValueError",
                                   <<"income out of range">>))
                      ELSE value
       IN  IF checked.raised
           THEN /\ exc' = [exc EXCEPT ![w] = checked.exc]
                /\ pc' = [pc EXCEPT ![w] = "line19"]
                /\ UNCHANGED income
           ELSE /\ income' = [income EXCEPT ![w] = checked.val]
                /\ pc' = [pc EXCEPT ![w] = "line16"]
                /\ UNCHANGED exc
    /\ UNCHANGED <<phase, model, loads, req, prediction, calls, resp>>

\* line 15, income = float(request.form['income']), inside try
ParseIncome(w) ==
    /\ pc[w] = "line15"
    /\ LET field == FormIncome(req[w].form)
           value == IF field.raised THEN field ELSE PyFloat(ValueOf(field))
       IN  IF value.raised
           THEN /\ exc' = [exc EXCEPT ![w] = value.exc]
                /\ pc' = [pc EXCEPT ![w] = "line19"]
                /\ UNCHANGED income
           ELSE /\ income' = [income EXCEPT ![w] = value.val]
                /\ pc' = [pc EXCEPT ![w] = "line16"]
                /\ UNCHANGED exc
    /\ UNCHANGED <<phase, model, loads, req, prediction, calls, resp>>

\* an exception leaving a view function: Flask answers 500
InternalServerError == [status |-> 500, template |-> "", context |-> NoContext]

\* faulty variant of CallPredict: the call stands outside the try block, so what it
\* raises leaves the view function
CallPredictOutsideTry(w) ==
    /\ pc[w] = "line16"
    /\ LET X == Array2D(CHOOSE x \in income[w] : TRUE)
           result == Predict(model, X)
           first == IF result.raised THEN result ELSE First(ValueOf(result))
       IN  /\ calls' = [calls EXCEPT ![w] = Append(@, X)]
           /\ IF first.raised
              THEN /\ exc' = [exc EXCEPT ![w] = first.exc]
                   /\ resp' = [resp EXCEPT ![w] = InternalServerError]
                   /\ pc' = [pc EXCEPT ![w] = "done"]
                   /\ UNCHANGED prediction
              ELSE /\ prediction' = [prediction EXCEPT ![w] = first.val]
                   /\ pc' = [pc EXCEPT ![w] = "line17"]
                   /\ UNCHANGED <<exc, resp>>
    /\ UNCHANGED <<phase, model, loads, req, income>>

\* faulty variant of CallPredict: a negative income is clamped to zero before the
\* predictor sees it
CallPredictClamped(w) ==
    /\ pc[w] = "line16"
    /\ LET given == CHOOSE x \in income[w] : TRUE
           X == Array2D(IF given.kind = "finite" /\ given.neg
                        THEN Finite(FALSE, 0, 0) ELSE given)
           result == Predict(model, X)
           first == IF result.raised THEN result ELSE First(ValueOf(result))
       IN  /\ calls' = [calls EXCEPT ![w] = Append(@, X)]
           /\ IF first.raised
              THEN /\ exc' = [exc EXCEPT ![w] = first.exc]
                   /\ pc' = [pc EXCEPT ![w] = "line19"]
                   /\ UNCHANGED prediction
              ELSE /\ prediction' = [prediction EXCEPT ![w] = first.val]
                   /\ pc' = [pc EXCEPT ![w] = "line17"]
                   /\ UNCHANGED exc
    /\ UNCHANGED <<phase, model, loads, req, income, resp>>

\* line 16, prediction = model.predict(np.array([[income]]))[0], inside try
CallPredict(w) ==
    /\ pc[w] = "line16"
    /\ LET X == Array2D(CHOOSE x \in income[w] : TRUE)
           result == Predict(model, X)
           first == IF result.raised THEN result ELSE First(ValueOf(result))
       IN  /\ calls' = [calls EXCEPT ![w] = Append(@, X)]
           /\ IF first.raised
              THEN /\ exc' = [exc EXCEPT ![w] = first.exc]
                   /\ pc' = [pc EXCEPT ![w] = "line19"]
                   /\ UNCHANGED prediction
              ELSE /\ prediction' = [prediction EXCEPT ![w] = first.val]
                   /\ pc' = [pc EXCEPT ![w] = "line17"]
                   /\ UNCHANGED exc
    /\ UNCHANGED <<phase, model, loads, req, income, resp>>

\* line 17, render_template('index.html', prediction=prediction, income=income)
RenderPrediction(w) ==
    /\ pc[w] = "line17"
    /\ resp' = [resp EXCEPT ![w] =
                  RenderTemplate("index.html",
                      [prediction |-> prediction[w], income |-> income[w],
                       error |-> {}])]
    /\ pc' = [pc EXCEPT ![w] = "done"]
    /\ UNCHANGED <<phase, model, loads, req, income, prediction, exc, calls>>

\* faulty variant of RenderError: the handler reloads the artifact after a failure
RenderErrorReloads(w) ==
    /\ pc[w] = "line19"
    /\ resp' = [resp EXCEPT ![w] =
                  RenderTemplate("index.html",
                      [prediction |-> {}, income |-> {},
                       error |-> {Str(ExcOf([exc |-> exc[w]]))}])]
    /\ pc' = [pc EXCEPT ![w] = "done"]
    /\ \E m \in Predictors : model' = m
    /\ loads' = loads + 1
    /\ UNCHANGED <<phase, req, income, prediction, exc, calls>>

\* faulty variant of RenderError: the exception is kept in one process-wide variable,
\* so the message rendered is that of any handler that has raised
RenderErrorShared(w) ==
    /\ pc[w] = "line19"
    /\ \E v \in DOMAIN exc :
         /\ exc[v] # {}
         /\ resp' = [resp EXCEPT ![w] =
                       RenderTemplate("index.html",
                           [prediction |-> {}, income |-> {},
                            error |-> {Str(ExcOf([exc |-> exc[v]]))}])]
    /\ pc' = [pc EXCEPT ![w] = "done"]
    /\ UNCHANGED <<phase, model, loads, req, income, prediction, exc, calls>>

\* faulty variant of RenderError: the error page echoes the income that was parsed
RenderErrorEchoesIncome(w) ==
    /\ pc[w] = "line19"
    /\ resp' = [resp EXCEPT ![w] =
                  RenderTemplate("index.html",
                      [prediction |-> {}, income |-> income[w],
                       error |-> {Str(ExcOf([exc |-> exc[w]]))}])]
    /\ pc' = [pc EXCEPT ![w] = "done"]
    /\ UNCHANGED <<phase, model, loads, req, income, prediction, exc, calls>>

\* lines 18-19, except Exception as e: render_template('index.html', error=str(e))
RenderError(w) ==
    /\ pc[w] = "line19"
    /\ resp' = [resp EXCEPT ![w] =
                  RenderTemplate("index.html",
                      [prediction |-> {}, income |-> {},
                       error |-> {Str(ExcOf([exc |-> exc[w]]))}])]
    /\ pc' = [pc EXCEPT ![w] = "done"]
    /\ UNCHANGED <<phase, model, loads, req, income, prediction, exc, calls>>

\* the view function has returned: the response is sent, the locals of the
\* call are gone and the worker is free for the next request
Respond(w) ==
    /\ pc[w] = "done"
    /\ pc' = [pc EXCEPT ![w] = "idle"]
    /\ req' = [req EXCEPT ![w] = NoRequest]
    /\ income' = [income EXCEPT ![w] = {}]
    /\ prediction' = [prediction EXCEPT ![w] = {}]
    /\ exc' = [exc EXCEPT ![w] = {}]
    /\ calls' = [calls EXCEPT ![w] = <<>>]
    /\ resp' = [resp EXCEPT ![w] = NoResponse]
    /\ UNCHANGED <<phase, model, loads>>

\* one step of the view function a worker is in
Handle(w) ==
    \/ Home(w)
    \/ ParseIncome(w)
    \/ CallPredict(w)
    \/ RenderPrediction(w)
    \/ RenderError(w)

(***************************************************************************)
(* Specifications.                                                         *)
(*   Spec      one worker, every income string of at most MaxLen           *)
(*             characters.                                                 *)
(*   ConcSpec  two workers whose handlers interleave, on one income string *)
(*             of each kind (finite, negative, exponent, padded, nan, inf, *)
(*             not a number, empty).                                       *)
(*   LiveSpec  one worker on the same sample of requests; a view function  *)
(*             that has been entered keeps running until it returns        *)
(*             (weak fairness of the handler's steps).                     *)
(***************************************************************************)
Worker == {"w1"}
Workers == {"w1", "w2"}

SampleIncomes ==
    {<<"1">>, <<"-", "1">>, <<"1", "e", "1">>, <<" ", "1">>,
     <<"n", "a", "n">>, <<"i", "n", "f">>, <<"a">>, <<>>}
SampleRequests ==
    {GetHome, PostPredict(NoForm)}
        \cup {PostPredict([income |-> {s}]) : s \in SampleIncomes}

Init == InitOver(Worker)

Next ==
    \/ LoadModel
    \/ LoadModelFails
    \/ AppRun
    \/ \E w \in Worker : Receive(w, Requests(MaxLen))
    \/ \E w \in Worker : Handle(w)
    \/ \E w \in Worker : Respond(w)

Spec == Init /\ [][Next]_vars

ConcInit == InitOver(Workers)

ConcNext ==
    \/ LoadModel
    \/ LoadModelFails
    \/ AppRun
    \/ \E w \in Workers : Receive(w, SampleRequests)
    \/ \E w \in Workers : Handle(w)
    \/ \E w \in Workers : Respond(w)

ConcSpec == ConcInit /\ [][ConcNext]_vars

LiveNext ==
    \/ LoadModel
    \/ LoadModelFails
    \/ AppRun
    \/ \E w \in Worker : Receive(w, SampleRequests)
    \/ \E w \in Worker : Handle(w)
    \/ \E w \in Worker : Respond(w)

LiveSpec ==
    Init /\ [][LiveNext]_vars /\ WF_vars(\E w \in Worker : Handle(w))

(***************************************************************************)
(* Vocabulary of the properties.                                           *)
(***************************************************************************)
IsPredictPost(r) == r.method = "POST" /\ r.path = "/predict"

\* worker w has finished a POST /predict whose response is in resp[w]
Answered(w) == pc[w] = "done" /\ IsPredictPost(req[w])

HasIncomeField(w) == req[w].form.income # {}
Submitted(w) == CHOOSE s \in req[w].form.income : TRUE

HasPrediction(w) == resp[w].context.prediction # {}
HasError(w) == resp[w].context.error # {}
HasIncome(w) == resp[w].context.income # {}
ErrorText(w) == CHOOSE e \in resp[w].context.error : TRUE

IsFormView(r) == r.status = 200 /\ r.template = "index.html"

\* computing the prediction at line 16 raises: predict() does, or taking
\* the first element of its result does
PredictionRaises(m, x) ==
    LET result == Predict(m, Array2D(x))
    IN  result.raised \/ First(ValueOf(result)).raised

Handling == {w \in DOMAIN pc : pc[w] # "idle"}

C2_NonNumericGivesError ==
    \A w \in DOMAIN pc :
        (Answered(w) /\ HasIncomeField(w) /\ ~IsFloatLiteral(Submitted(w)))
            => (/\ HasError(w) /\ Len(ErrorText(w)) > 0
                /\ ~HasPrediction(w))

\* the empty income string was answered with an error
C2_Witness ==
    \E w \in DOMAIN pc :
        /\ Answered(w) /\ HasIncomeField(w) /\ Submitted(w) = <<>>
        /\ HasError(w) /\ ~HasPrediction(w)

(***************************************************************************)
(* C3.  A POST /predict without an income field takes the error path: the  *)
(* form view with an error and no prediction, the predictor not called,    *)
(* the server still serving.                                               *)
(***************************************************************************)
C3_MissingFieldIsError ==
    \A w \in DOMAIN pc :
        (Answered(w) /\ ~HasIncomeField(w))
            => (/\ IsFormView(resp[w])
                /\ HasError(w) /\ ~HasPrediction(w)
                /\ calls[w] = <<>>
                /\ phase = "serving")

\* a POST without the field was answered
C3_Witness ==
    \E w \in DOMAIN pc :
        Answered(w) /\ ~HasIncomeField(w) /\ HasError(w)

(***************************************************************************)
(* C4.  Every POST /predict that enters the handler ends with a response,  *)
(* and that response is the form view with status 200, whether the parse   *)
(* or the predictor call failed or not; the server keeps serving.          *)
(***************************************************************************)
C4_PredictAlwaysAnswers200 ==
    /\ [](\A w \in DOMAIN pc :
            Answered(w) => (IsFormView(resp[w]) /\ phase = "serving"))
    /\ \A w \in Worker : (pc[w] = "line15") ~> (pc[w] = "done")

\* a request whose predictor call raised was answered with the form view
C4_Witness ==
    \E w \in DOMAIN pc :
        /\ Answered(w) /\ calls[w] # <<>> /\ exc[w] # {}
        /\ IsFormView(resp[w])

(***************************************************************************)
(* C5.  GET / returns the bare form view (no prediction, no income, no     *)
(* error) whatever was handled before or is being handled meanwhile, and   *)
(* changes nothing but the worker's own response.                          *)
(***************************************************************************)
C5_HomeIsBareAndPure ==
    [][\A w \in DOMAIN pc :
         (pc[w] = "line10" /\ pc'[w] = "done")
            => (/\ resp'[w] = RenderTemplate("index.html", NoContext)
                /\ <<phase, model, loads>>' = <<phase, model, loads>>
                /\ \A v \in DOMAIN pc \ {w} :
                     /\ pc'[v] = pc[v] /\ req'[v] = req[v]
                     /\ resp'[v] = resp[v] /\ exc'[v] = exc[v]
                     /\ income'[v] = income[v]
                     /\ prediction'[v] = prediction[v]
                     /\ calls'[v] = calls[v])]_vars

\* GET / was answered while another worker holds the response of a failed POST
C5_Witness ==
    \E w, v \in DOMAIN pc :
        /\ w # v
        /\ pc[w] = "done" /\ req[w] = GetHome
        /\ resp[w] = RenderTemplate("index.html", NoContext)
        /\ Answered(v) /\ HasError(v)

(***************************************************************************)
(* C6.  Start-up is fail-fast: the load is attempted once; when it fails   *)
(* the process has exited and handles nothing; whenever the server serves  *)
(* or a request is being handled, a predictor is loaded.                   *)
(***************************************************************************)
C6_FailFastStartup ==
    /\ loads <= 1
    /\ (phase = "serving" \/ Handling # {})
           => (model \in Predictors /\ loads = 1)
    /\ (loads = 1 /\ model = NoModel)
           => (phase = "exited" /\ Handling = {})

\* the predictor is being called for a request
C6_Witness ==
    \E w \in DOMAIN pc :
        pc[w] = "line16" /\ model \in Predictors /\ loads = 1

(***************************************************************************)
(* C7.  The predictor is created once, at start-up, and no step taken      *)
(* after that (no request, successful or failed) reassigns or reloads it.  *)
(***************************************************************************)
C7_PredictorNeverChanges ==
    /\ [](phase = "serving" => loads = 1)
    /\ [][phase # "import" => (model' = model /\ loads' = loads)]_vars

\* a failed request was answered, and the predictor has been loaded once
C7_Witness ==
    \E w \in DOMAIN pc :
        Answered(w) /\ HasError(w) /\ loads = 1 /\ model \in Predictors

(***************************************************************************)
(* C8.  Requests are independent: two workers that have answered the same  *)
(* request hold the same response, whatever each of them and the other     *)
(* handled before and however their handlers interleaved.                  *)
(***************************************************************************)
C8_SameRequestSameResponse ==
    \A w, v \in DOMAIN pc :
        (pc[w] = "done" /\ pc[v] = "done" /\ req[w] = req[v])
            => resp[w] = resp[v]

\* two workers have answered the same successful POST
C8_Witness ==
    \E w, v \in DOMAIN pc :
        /\ w # v
        /\ Answered(w) /\ Answered(v) /\ req[w] = req[v]
        /\ HasPrediction(w) /\ HasPrediction(v)

(***************************************************************************)
(* C9.  On a successful POST the predictor was called exactly once, with   *)
(* the 1 x 1 array holding the parsed income unchanged, and the view       *)
(* carries that income and the first element of the predictor's result.    *)
(***************************************************************************)
C9_SuccessForwardsIncomeUnchanged ==
    \A w \in DOMAIN pc :
        (Answered(w) /\ HasPrediction(w))
            => LET x == FloatValue(Submitted(w))
               IN  /\ HasIncomeField(w) /\ IsFloatLiteral(Submitted(w))
                   /\ calls[w] = <<Array2D(x)>>
                   /\ resp[w].context.income = {x}
                   /\ resp[w].context.prediction =
                          {ValueOf(Predict(model, Array2D(x)))[1]}

\* a negative income was answered by a predictor that returns two outputs
C9_Witness ==
    \E w \in DOMAIN pc :
        /\ Answered(w) /\ HasPrediction(w)
        /\ FloatValue(Submitted(w)).neg
        /\ FloatValue(Submitted(w)).mant # 0
        /\ Len(ValueOf(Predict(model, Array2D(FloatValue(Submitted(w)))))) > 1

(***************************************************************************)
(* C10.  A response to POST /predict carries exactly one of a prediction   *)
(* and an error, and carries the income exactly when it carries the        *)
(* prediction.                                                             *)
(***************************************************************************)
C10_PredictionXorError ==
    \A w \in DOMAIN pc :
        Answered(w)
            => (/\ HasPrediction(w) # HasError(w)
                /\ HasIncome(w) = HasPrediction(w))

\* the income parsed, the predictor call failed, and the error response
\* does not carry the income
C10_Witness ==
    \E w \in DOMAIN pc :
        /\ Answered(w) /\ income[w] # {} /\ calls[w] # <<>>
        /\ HasError(w) /\ ~HasIncome(w)

====
